---------------------------- MODULE Spec2Model ----------------------------
(***************************************************************************)
(* Model of the SSE MCP server template: the tool registry                 *)
(* (infrastructure/tool_factory.py) and the call_tool handler              *)
(* (infrastructure/mcp_server.py).                                         *)
(*                                                                         *)
(* Python values are modelled as follows.                                  *)
(*   - a JSON value is a record [t, v]: t is the Python type name and v an *)
(*     integer (the number, 0/1 for a bool, an index into StrVals for a    *)
(*     string, 0 for None).  A float is given in halves (v = 5 is 2.5), so *)
(*     that every float of the model is exact in binary; "hugeint" is an   *)
(*     int beyond the range of a float (v * 10**400, v = 1 or -1);         *)
(*   - an optional name is a record [none, s]; an optional arguments       *)
(*     mapping is a record [none, items] with items a function from the    *)
(*     keys present to their values;                                       *)
(*   - a dict is a sequence of [key, value] records in insertion order     *)
(*     (Python dicts keep insertion order);                                *)
(*   - the result of a call is an outcome record: either kind = "return"   *)
(*     with the content blocks, or kind = "raise" with the exception's     *)
(*     type name and message.                                              *)
(***************************************************************************)
EXTENDS Integers, Sequences, FiniteSets, TLC

VARIABLES
    _tools,   \* MCPToolRegistry._tools: the dict name -> tool
    regLog,   \* history: the tools passed to register, in call order
    last,     \* the last call made on the registry and what it gave
    settings  \* the module-level Settings object

vars == <<_tools, regLog, last, settings>>

(***************************************************************************)
(* Bounds of the model.                                                    *)
(***************************************************************************)
\* Number of register calls in one behaviour.
MaxRegs == 2
\* Number of register calls in one behaviour of SpecList.
MaxListRegs == 3

(***************************************************************************)
(* Python values.                                                          *)
(***************************************************************************)
\* The string values an argument can take (indexed by v of a "str" value).
StrVals == <<"x", "Alice", "World", "">>

PyInt(n) == [t |-> "int", v |-> n]
PyBool(b) == [t |-> "bool", v |-> IF b THEN 1 ELSE 0]
PyStrVal(i) == [t |-> "str", v |-> i]
PyNone == [t |-> "NoneType", v |-> 0]
PyFloat(halves) == [t |-> "float", v |-> halves]
PyHugeInt(sign) == [t |-> "hugeint", v |-> sign]
PyList == [t |-> "list", v |-> 0]
PyDict == [t |-> "dict", v |-> 0]

\* str(n) for an integer n.
RECURSIVE NatStr(_)
NatStr(n) ==
    IF n < 10
    THEN SubSeq("0123456789", n + 1, n + 1)
    ELSE NatStr(n \div 10) \o SubSeq("0123456789", (n % 10) + 1, (n % 10) + 1)

IntStr(n) == IF n < 0 THEN "-" \o NatStr(-n) ELSE NatStr(n)

\* The digits of the fraction rem/den (0 <= rem < den), by long division; the
\* expansion terminates for the divisors the model draws.
RECURSIVE FracDigits(_, _)
FracDigits(rem, den) ==
    IF rem = 0
    THEN ""
    ELSE NatStr((rem * 10) \div den) \o FracDigits((rem * 10) % den, den)

\* str(f) of the float f = n/d or -n/d (n >= 0, d > 0, the expansion
\* terminating): the shortest decimal form, which always shows a fractional
\* part ("5.0"), and the sign of a negative zero ("-0.0").
FloatStr(neg, n, d) ==
    LET frac == FracDigits(n % d, d)
    IN  (IF neg THEN "-" ELSE "") \o NatStr(n \div d) \o "."
            \o (IF frac = "" THEN "0" ELSE frac)

Abs(n) == IF n < 0 THEN -n ELSE n

\* str(x / y) for integers x and y # 0; 0 / -2 is -0.0.
FloatDivStr(x, y) == FloatStr((x < 0) # (y < 0), Abs(x), Abs(y))

\* str(value) of a JSON value.
PyStr(val) ==
    CASE val.t = "int" -> IntStr(val.v)
      [] val.t = "bool" -> IF val.v = 1 THEN "True" ELSE "False"
      [] val.t = "str" -> StrVals[val.v]
      [] OTHER -> "None"

\* Optional names: a str, or None (the name is absent).
Name(s) == [none |-> FALSE, s |-> s]
NoneName == [none |-> TRUE, s |-> ""]
NameStr(name) == IF name.none THEN "None" ELSE name.s

\* Optional arguments mappings.
NoneArgs == [none |-> TRUE, items |-> << >>]
Args(d) == [none |-> FALSE, items |-> d]

\* The arguments a call can be given: None, the empty mapping, numbers, a zero
\* divisor, a string for a number, a missing field, a field no calculator reads.
Arguments ==
    {NoneArgs,
     Args(<< >>),
     Args([k \in {"a", "b"} |-> IF k = "a" THEN PyInt(2) ELSE PyInt(10)]),
     Args([k \in {"a", "b"} |-> IF k = "a" THEN PyInt(10) ELSE PyInt(0)]),
     Args([k \in {"a", "b"} |-> IF k = "a" THEN PyStrVal(1) ELSE PyInt(2)]),
     Args([k \in {"a"} |-> PyInt(2)]),
     Args([k \in {"name"} |-> PyStrVal(2)])}

\* dict.get(key, default) on an arguments mapping.
ArgGet(d, key, default) == IF key \in DOMAIN d THEN d[key] ELSE default

(***************************************************************************)
(* Outcomes of a call.                                                     *)
(***************************************************************************)
TextContent(text) == [type |-> "text", text |-> text]
Return(content) == [kind |-> "return", exc |-> "", msg |-> "", content |-> content]
Raise(exc, msg) == [kind |-> "raise", exc |-> exc, msg |-> msg, content |-> << >>]
NoOutcome == [kind |-> "none", exc |-> "", msg |-> "", content |-> << >>]

StartsWith(s, prefix) ==
    Len(s) >= Len(prefix) /\ SubSeq(s, 1, Len(prefix)) = prefix

(***************************************************************************)
(* Tools.  A tool object is a record; id is the object's identity (two     *)
(* tools built by two constructor calls are two objects even when every    *)
(* field agrees).                                                          *)
(***************************************************************************)
\* MCPTool.__init__ through the subclasses' constructors.
CalculatorTool(operation, id) ==
    [cls |-> "CalculatorTool", name |-> "calculate_" \o operation,
     operation |-> operation, required |-> <<"a", "b">>, handler |-> "", id |-> id]

SimpleTool(name, required, handler, id) ==
    [cls |-> "SimpleTool", name |-> name, operation |-> "",
     required |-> required, handler |-> handler, id |-> id]

create_simple_tool(name, required, handler, id) ==
    SimpleTool(name, required, handler, id)

\* Python's None where a tool is expected.
NoneTool ==
    [cls |-> "NoneType", name |-> "", operation |-> "", required |-> << >>,
     handler |-> "", id |-> 0]

\* Truth value of an object that defines neither __bool__ nor __len__.
Truthy(tool) == tool.cls # "NoneType"

\* What a handler returns: a dict (with its json.dumps(indent=2) text and its
\* str() text) or a str.
DictResult(json, str) == [cls |-> "dict", json |-> json, str |-> str]
StrResult(str) == [cls |-> "str", json |-> "", str |-> str]

\* The handlers given to create_simple_tool.
get_server_info(arguments) ==
    DictResult(
        "{\n  \"server\": \"SSE MCP Server\",\n  \"version\": \"0.1.0\",\n  \"status\": \"running\"\n}",
        "{'server': 'SSE MCP Server', 'version': '0.1.0', 'status': 'running'}")

greet_handler(arguments) ==
    StrResult("Hello, "
        \o (IF "name" \in DOMAIN arguments THEN PyStr(arguments["name"]) ELSE "World")
        \o "!")

\* SimpleTool.execute
SimpleTool_execute(tool, arguments) ==
    LET result ==
            IF tool.handler = "get_server_info"
            THEN get_server_info(arguments)
            ELSE greet_handler(arguments)
        result_text == IF result.cls = "dict" THEN result.json ELSE result.str
    IN  Return(<<TextContent(result_text)>>)

\* isinstance(val, (int, float)); bool is a subclass of int.
IsNumber(val) == val.t \in {"int", "float", "bool", "hugeint"}

\* The value of an arithmetic expression: an int, a float (n/d with its sign
\* apart), None, or the exception the expression raised.
IntResult(n) == [kind |-> "int", neg |-> n < 0, n |-> Abs(n), d |-> 1, msg |-> ""]
FloatResult(neg, n, d) == [kind |-> "float", neg |-> neg, n |-> Abs(n), d |-> Abs(d), msg |-> ""]
NoneResult == [kind |-> "None", neg |-> FALSE, n |-> 0, d |-> 1, msg |-> ""]
OverflowResult(msg) == [kind |-> "OverflowError", neg |-> FALSE, n |-> 0, d |-> 1, msg |-> msg]

\* str(result)
ResultStr(r) ==
    IF r.kind = "int"
    THEN IntStr(IF r.neg THEN -r.n ELSE r.n)
    ELSE FloatStr(r.neg, r.n, r.d)

\* A number as the fraction num/den.
Num(val) == val.v
Den(val) == IF val.t = "float" THEN 2 ELSE 1

\* x + y, x - y, x * y and x / y on Python numbers.  Two ints (bools included)
\* give an int, but for /, which gives a float; a float operand makes the
\* other one a float first, which raises OverflowError for an int beyond the
\* range of a float.  A zero result of + and - is 0.0; of * and / it has the
\* sign of the operands.  (An int beyond the range of a float is drawn only
\* beside a float.)
FloatArith(op, x, y) ==
    CASE op = "sum" ->
            FloatResult(Num(x) * Den(y) + Num(y) * Den(x) < 0,
                        Num(x) * Den(y) + Num(y) * Den(x), Den(x) * Den(y))
      [] op = "subtract" ->
            FloatResult(Num(x) * Den(y) - Num(y) * Den(x) < 0,
                        Num(x) * Den(y) - Num(y) * Den(x), Den(x) * Den(y))
      [] op = "multiply" ->
            FloatResult((Num(x) < 0) # (Num(y) < 0), Num(x) * Num(y), Den(x) * Den(y))
      [] op = "divide" ->
            FloatResult((Num(x) < 0) # (Num(y) < 0), Num(x) * Den(y), Den(x) * Num(y))

IntArith(op, x, y) ==
    CASE op = "sum" -> IntResult(x.v + y.v)
      [] op = "subtract" -> IntResult(x.v - y.v)
      [] op = "multiply" -> IntResult(x.v * y.v)
      [] op = "divide" -> FloatResult((x.v < 0) # (y.v < 0), x.v, y.v)

Arith(op, x, y) ==
    CASE (x.t = "float" \/ y.t = "float") /\ (x.t = "hugeint" \/ y.t = "hugeint") ->
            OverflowResult("int too large to convert to float")
      [] (x.t = "float" \/ y.t = "float") /\ x.t # "hugeint" /\ y.t # "hugeint" ->
            FloatArith(op, x, y)
      [] x.t \in {"int", "bool"} /\ y.t \in {"int", "bool"} ->
            IntArith(op, x, y)

\* y != 0
NotZero(y) == y.t = "hugeint" \/ y.v # 0

\* The operations table with "divide": lambda x, y: x / y.
Operate_NoZeroCheck(op, x, y) ==
    IF op = "divide" /\ ~NotZero(y)
    THEN [kind |-> "ZeroDivisionError", neg |-> FALSE, n |-> 0, d |-> 1,
          msg |-> "division by zero"]
    ELSE Arith(op, x, y)

\* The operations table of CalculatorTool.execute.
Operate(op, x, y) ==
    IF op = "divide" /\ ~NotZero(y)
    THEN NoneResult
    ELSE Arith(op, x, y)

\* CalculatorTool.execute
CalculatorTool_execute(tool, arguments) ==
    LET a == ArgGet(arguments, "a", PyNone)
        b == ArgGet(arguments, "b", PyNone)
    IN  IF ~IsNumber(a) \/ ~IsNumber(b)
        THEN Raise("ValueError", "Arguments must be numbers")
        ELSE LET result == Operate(tool.operation, a, b)
             IN  IF result.kind \notin {"int", "float", "None"}
                 THEN Raise(result.kind, result.msg)
                 ELSE IF result.kind = "None"
                 THEN Return(<<TextContent("Error: Division by zero")>>)
                 ELSE Return(<<TextContent(ResultStr(result))>>)

\* Whether tool.execute(arguments) reaches the tool's handler: SimpleTool.execute
\* calls self.handler first thing; CalculatorTool.execute looks up and calls the
\* operation's lambda once both arguments passed isinstance.
HandlerInvoked(tool, arguments) ==
    IF tool.cls = "SimpleTool"
    THEN TRUE
    ELSE /\ IsNumber(ArgGet(arguments, "a", PyNone))
         /\ IsNumber(ArgGet(arguments, "b", PyNone))

\* tool.execute(arguments), dispatched on the tool's class.
execute(tool, arguments) ==
    IF tool.cls = "CalculatorTool"
    THEN CalculatorTool_execute(tool, arguments)
    ELSE SimpleTool_execute(tool, arguments)

(***************************************************************************)
(* Settings.  The environment variables the constructor reads are a record *)
(* of optional strings (Name(s), or NoneName for a variable that is unset). *)
(***************************************************************************)
DefaultPort == 5001

Environ(app_env, app_name, version, debug) ==
    [APP_ENV |-> app_env, APP_NAME |-> app_name, VERSION |-> version, DEBUG |-> debug]

NoEnviron == Environ(NoneName, NoneName, NoneName, NoneName)

\* os.getenv(key, default)
getenv(environ, key, default) == IF environ[key].none THEN default ELSE environ[key].s

\* get_environment: the value of the Environment member (APP_ENV is drawn in
\* lower case, so .lower() leaves it as it is).
get_environment(environ) ==
    LET v == getenv(environ, "APP_ENV", "development")
    IN  CASE v \in {"production", "prod"} -> "production"
          [] v \in {"staging", "stage"} -> "staging"
          [] v = "test" -> "test"
          [] OTHER -> "development"

\* Settings.__init__ followed by _apply_environment_settings: debug takes the
\* environment's value unless DEBUG is set.
Settings(environ) ==
    LET environment == get_environment(environ)
    IN  [environment |-> environment,
         app_name |-> getenv(environ, "APP_NAME", "Agent Hub"),
         version |-> getenv(environ, "VERSION", "1.0.0"),
         host |-> "0.0.0.0",
         port |-> DefaultPort,
         debug |-> IF environ.DEBUG.none
                   THEN environment \in {"development", "test"}
                   ELSE getenv(environ, "DEBUG", "false") \in {"true", "1", "yes"}]

(***************************************************************************)
(* The catalog handlers of mcp_server.py.  A URI is given by its str().     *)
(***************************************************************************)
\* handle_list_resources
handle_list_resources ==
    <<[uri |-> "config://app", name |-> "App Config", mimeType |-> "text/plain"]>>

\* handle_read_resource with startswith in place of ==
handle_read_resource_Prefix(uri, stg) ==
    IF StartsWith(uri, "config://app")
    THEN Return("Application Configuration:\n- Name: " \o stg.app_name \o "\n")
    ELSE Raise("ValueError", "Resource not found: " \o uri)

\* handle_read_resource
handle_read_resource(uri, stg) ==
    IF uri = "config://app"
    THEN Return("Application Configuration:\n"
                \o "- Name: " \o stg.app_name \o "\n"
                \o "- Version: " \o stg.version \o "\n"
                \o "- Environment: " \o stg.environment \o "\n"
                \o "- Debug: " \o (IF stg.debug THEN "True" ELSE "False") \o "\n"
                \o "- Host: " \o stg.host \o "\n"
                \o "- Port: " \o NatStr(stg.port) \o "\n")
    ELSE Raise("ValueError", "Resource not found: " \o uri)

\* handle_list_prompts
handle_list_prompts ==
    <<[name |-> "greeting",
       description |-> "Generate a greeting",
       arguments |-> <<[name |-> "name",
                        description |-> "Name of the person to greet",
                        required |-> TRUE]>>]>>

\* arguments or {}
OrEmpty(arguments) == IF arguments.none THEN << >> ELSE arguments.items

GetPromptResult(text) ==
    [description |-> "A friendly greeting",
     messages |-> <<[role |-> "user", content |-> TextContent(text)]>>]

\* handle_get_prompt reading arguments["name"] with no default
handle_get_prompt_NoDefault(name, arguments) ==
    IF name = "greeting"
    THEN IF "name" \in DOMAIN OrEmpty(arguments)
         THEN Return(GetPromptResult("Hello, " \o PyStr(OrEmpty(arguments)["name"])
                                     \o "! How can I help you today?"))
         ELSE Raise("KeyError", "'name'")
    ELSE Raise("ValueError", "Unknown prompt: " \o name)

\* handle_get_prompt without its name check
handle_get_prompt_AnyName(name, arguments) ==
    Return(GetPromptResult("Hello, "
        \o PyStr(ArgGet(OrEmpty(arguments), "name", PyStrVal(1)))
        \o "! How can I help you today?"))

\* The str "User", the default of .get("name", "User")
UserDefault == [t |-> "literal", v |-> "User"]

\* f"{user_name}" for the values user_name takes
Format(val) == IF val.t = "literal" THEN val.v ELSE PyStr(val)

\* handle_get_prompt
handle_get_prompt(name, arguments) ==
    IF name = "greeting"
    THEN LET user_name == ArgGet(OrEmpty(arguments), "name", UserDefault)
         IN  Return(GetPromptResult("Hello, " \o Format(user_name)
                                    \o "! How can I help you today?"))
    ELSE Raise("ValueError", "Unknown prompt: " \o name)

(***************************************************************************)
(* The dict of the registry.                                               *)
(***************************************************************************)
DictKeys(d) == {d[i].key : i \in 1..Len(d)}

\* d[key] = value as del d[key] followed by an insertion would do it: the key
\* moves to the end.
DictSet_MoveToEnd(d, key, value) ==
    Append(SelectSeq(d, LAMBDA e : e.key # key), [key |-> key, value |-> value])

\* d[key] = value: replaces the value in place when the key is present,
\* appends the pair otherwise.
DictSet(d, key, value) ==
    IF key \in DictKeys(d)
    THEN [i \in 1..Len(d) |-> IF d[i].key = key THEN [key |-> key, value |-> value] ELSE d[i]]
    ELSE Append(d, [key |-> key, value |-> value])

\* The dict after d.pop(key, None): the key is gone.
DictAfterPop(d, name) == SelectSeq(d, LAMBDA e : name.none \/ e.key # name.s)

\* The dict after d.get(key): as it was.
DictAfterGet(d, name) == d

\* d.get(key): the value, or None.  A None key equals no str key.
DictGet(d, name) ==
    IF ~name.none /\ name.s \in DictKeys(d)
    THEN d[CHOOSE i \in 1..Len(d) : d[i].key = name.s].value
    ELSE NoneTool


(***************************************************************************)
(* MCPToolRegistry.  Each method is an operator on the dict; a method that *)
(* can raise gives an outcome, and execute_tool also gives the ids of the  *)
(* tools whose execute it called.                                          *)
(***************************************************************************)
\* MCPToolRegistry.__init__
EmptyRegistry == << >>

\* register as dict.setdefault would do it: an existing name keeps its tool.
register_KeepFirst(reg, tool) ==
    IF tool.name \in DictKeys(reg)
    THEN reg
    ELSE Append(reg, [key |-> tool.name, value |-> tool])

\* MCPToolRegistry.register
register(reg, tool) == DictSet(reg, tool.name, tool)

\* MCPToolRegistry.get
get(reg, name) == DictGet(reg, name)

\* MCPTool.to_mcp_tool: the wire descriptor (the name and the input schema's
\* required list).
to_mcp_tool(tool) == [name |-> tool.name, inputSchema |-> [required |-> tool.required]]

\* MCPToolRegistry.list_tools: the descriptors of dict.values(), in dict order.
list_tools(reg) == [i \in 1..Len(reg) |-> to_mcp_tool(reg[i].value)]

\* execute_tool without its "if not tool" check: tool.execute is looked up on None.
execute_tool_NoCheck(reg, name, arguments) ==
    LET tool == DictGet(reg, name)
    IN  IF ~Truthy(tool)
        THEN [outcome |-> Raise("AttributeError", "'NoneType' object has no attribute 'execute'"),
              executed |-> {}]
        ELSE [outcome |-> execute(tool, IF arguments.none THEN << >> ELSE arguments.items),
              executed |-> {tool.id}]

\* MCPToolRegistry.execute_tool
execute_tool(reg, name, arguments) ==
    LET tool == get(reg, name)
    IN  IF ~Truthy(tool)
        THEN [outcome |-> Raise("ValueError", "Unknown tool: " \o NameStr(name)),
              executed |-> {}]
        ELSE [outcome |-> execute(tool, IF arguments.none THEN << >> ELSE arguments.items),
              executed |-> {tool.id}]

\* The exception types handle_call_tool catches.
Caught == {"ValueError", "KeyError", "RuntimeError"}

\* handle_call_tool without its try/except.
handle_call_tool_NoCatch(reg, name, arguments) ==
    execute_tool(reg, name, arguments)

\* handle_call_tool
handle_call_tool(reg, name, arguments) ==
    LET r == execute_tool(reg, name, arguments)
    IN  IF r.outcome.kind = "raise" /\ r.outcome.exc \in Caught
        THEN [outcome |-> Return(<<TextContent("Error: " \o r.outcome.msg)>>),
              executed |-> r.executed]
        ELSE r

(***************************************************************************)
(* The state machine: a registry on which register, get, execute_tool and  *)
(* handle_call_tool are called in any order with any inputs.               *)
(***************************************************************************)
\* The tools a register call can be given; id is the new object's identity.
\* The third simple tool takes the name of a calculator.
RegOps == {"sum", "divide"}
NewTools(id) ==
    {CalculatorTool(op, id) : op \in RegOps}
        \cup {create_simple_tool("get_server_info", << >>, "get_server_info", id),
              create_simple_tool("greet", << >>, "greet", id),
              create_simple_tool("calculate_sum", <<"name">>, "greet", id)}

\* The names a lookup can be given: every name a tool can have, one no tool
\* has, and None.
LookupNames ==
    {Name(NewTool.name) : NewTool \in NewTools(1)} \cup {Name("unknown_tool"), NoneName}

Call(op, name, arguments, tool, outcome, executed, before) ==
    [op |-> op, name |-> name, arguments |-> arguments, tool |-> tool,
     outcome |-> outcome, executed |-> executed, before |-> before]

Init ==
    /\ settings = Settings(NoEnviron)
    /\ _tools = EmptyRegistry
    /\ regLog = << >>
    /\ last = Call("init", NoneName, NoneArgs, NoneTool, NoOutcome, {}, EmptyRegistry)

Register ==
    /\ Len(regLog) < MaxRegs
    /\ \E tool \in NewTools(Len(regLog) + 1) :
        /\ _tools' = register(_tools, tool)
        /\ regLog' = Append(regLog, tool)
        /\ last' = Call("register", Name(tool.name), NoneArgs, tool, Return(<< >>), {}, _tools)
    /\ UNCHANGED settings

Get ==
    \E name \in LookupNames :
        /\ last' = Call("get", name, NoneArgs, get(_tools, name), Return(<< >>), {}, _tools)
        /\ _tools' = DictAfterGet(_tools, name)
        /\ UNCHANGED <<regLog, settings>>

ExecuteTool ==
    \E name \in LookupNames, arguments \in Arguments :
        LET r == execute_tool(_tools, name, arguments)
        IN  /\ last' = Call("execute_tool", name, arguments, NoneTool, r.outcome, r.executed, _tools)
            /\ _tools' = DictAfterGet(_tools, name)
            /\ UNCHANGED <<regLog, settings>>

HandleCallTool ==
    \E name \in LookupNames, arguments \in Arguments :
        LET r == handle_call_tool(_tools, name, arguments)
        IN  /\ last' = Call("handle_call_tool", name, arguments, NoneTool, r.outcome, r.executed, _tools)
            /\ _tools' = DictAfterGet(_tools, name)
            /\ UNCHANGED <<regLog, settings>>

Next == Register \/ Get \/ ExecuteTool \/ HandleCallTool

Spec == Init /\ [][Next]_vars


(***************************************************************************)
(* Calls on the registry of a running server: the registry is the one      *)
(* register_tools builds at import (SpecExec draws a second one that also  *)
(* holds a simple tool with a required field), a call and its arguments    *)
(* are drawn, and execute_tool or handle_call_tool is applied to them.     *)
(***************************************************************************)
RECURSIVE RegisterAll(_, _)
RegisterAll(reg, tools) ==
    IF tools = << >>
    THEN reg
    ELSE RegisterAll(register(reg, Head(tools)), Tail(tools))

\* The register calls of register_tools, in order.
StartupTools ==
    <<CalculatorTool("sum", 1), CalculatorTool("subtract", 2),
      CalculatorTool("multiply", 3), CalculatorTool("divide", 4),
      create_simple_tool("get_server_info", << >>, "get_server_info", 5)>>

\* A tool built by create_simple_tool whose schema requires "name".
GreetRequiringName == create_simple_tool("greet", <<"name">>, "greet", 6)

ExecRegLogs == {StartupTools, Append(StartupTools, GreetRequiringName)}

ExecNames ==
    {Name(StartupTools[i].name) : i \in 1..Len(StartupTools)}
        \cup {Name("greet"), Name("unknown_tool")}

\* The values of a and b: ints, bools, floats (0.0, 0.5, 2.5, -0.5), an int
\* beyond the range of a float, and values that are not numbers.  Every
\* quotient of two of the numbers has a terminating decimal expansion.
ExecInts == {PyInt(-4), PyInt(0), PyInt(2), PyInt(10)}
ExecBools == {PyBool(TRUE), PyBool(FALSE)}
ExecFloats == {PyFloat(0), PyFloat(1), PyFloat(5), PyFloat(-1)}
ExecNonNumbers == {PyStrVal(1), PyNone, PyList, PyDict}
ExecValues ==
    ExecInts \cup ExecBools \cup ExecFloats \cup {PyHugeInt(1)} \cup ExecNonNumbers

ExecDicts ==
    {d \in UNION {[S -> ExecValues] : S \in SUBSET {"a", "b"}} :
        \A k \in DOMAIN d :
            d[k].t = "hugeint" =>
                \A j \in DOMAIN d \ {k} : d[j].t \notin {"int", "bool", "hugeint"}}

ExecArguments ==
    {NoneArgs} \cup {Args(d) : d \in ExecDicts}
        \cup {Args([k \in {"name"} |-> PyStrVal(2)])}

InitExec ==
    /\ settings = Settings(NoEnviron)
    /\ regLog \in ExecRegLogs
    /\ _tools = RegisterAll(EmptyRegistry, regLog)
    /\ \E name \in ExecNames, arguments \in ExecArguments :
        last = Call("pending", name, arguments, NoneTool, NoOutcome, {}, _tools)

ExecutePending ==
    /\ last.op = "pending"
    /\ LET r == execute_tool(_tools, last.name, last.arguments)
       IN  last' = Call("execute_tool", last.name, last.arguments, NoneTool,
                        r.outcome, r.executed, _tools)
    /\ _tools' = DictAfterGet(_tools, last.name)
    /\ UNCHANGED <<regLog, settings>>

HandlePending ==
    /\ last.op = "pending"
    /\ LET r == handle_call_tool(_tools, last.name, last.arguments)
       IN  last' = Call("handle_call_tool", last.name, last.arguments, NoneTool,
                        r.outcome, r.executed, _tools)
    /\ _tools' = DictAfterGet(_tools, last.name)
    /\ UNCHANGED <<regLog, settings>>

NextExec == ExecutePending \/ HandlePending

SpecExec == InitExec /\ [][NextExec]_vars

(***************************************************************************)
(* Registrations followed by listings: SpecList.                           *)
(***************************************************************************)
RegisterForList ==
    /\ Len(regLog) < MaxListRegs
    /\ \E tool \in NewTools(Len(regLog) + 1) :
        /\ _tools' = register(_tools, tool)
        /\ regLog' = Append(regLog, tool)
        /\ last' = Call("register", Name(tool.name), NoneArgs, tool, Return(<< >>), {}, _tools)
    /\ UNCHANGED settings

\* handle_list_tools: tool_registry.list_tools()
ListTools ==
    /\ last' = Call("list_tools", NoneName, NoneArgs, NoneTool,
                    Return(list_tools(_tools)), {}, _tools)
    /\ UNCHANGED <<_tools, regLog, settings>>

NextList == RegisterForList \/ ListTools

\* Every method of the registry, in any order: SpecFrame.
NextFrame == Next \/ ListTools

SpecFrame == Init /\ [][NextFrame]_vars

SpecList == Init /\ [][NextList]_vars

(***************************************************************************)
(* The catalog: SpecCatalog.  Init draws the environment the settings are  *)
(* built from and one request; an action answers it.                       *)
(***************************************************************************)
Environs ==
    {Environ(e, n, v, d) :
        e \in {NoneName, Name("prod"), Name("staging"), Name("test"), Name("other")},
        n \in {NoneName, Name("My App")},
        v \in {NoneName, Name("2.3.4")},
        d \in {NoneName, Name("true"), Name("false")}}

\* str() of the URIs asked for.
Uris == {"config://app", "config://app/", "config://app2", "config://ap",
         "CONFIG://APP", "file://app"}

PromptNames == {"greeting", "Greeting", "greeting ", "greet", "", "calculate_sum"}

PromptArguments ==
    {NoneArgs, Args(<< >>)}
        \cup {Args([k \in {"name"} |-> PyStrVal(i)]) : i \in 1..Len(StrVals)}
        \cup {Args([k \in {"topic"} |-> PyStrVal(1)]),
              Args([k \in {"name", "topic"} |-> PyStrVal(IF k = "name" THEN 3 ELSE 1)])}

InitCatalog ==
    /\ \E environ \in Environs : settings = Settings(environ)
    /\ regLog = StartupTools
    /\ _tools = RegisterAll(EmptyRegistry, regLog)
    /\ \/ \E uri \in Uris :
            last = Call("pending_resource", Name(uri), NoneArgs, NoneTool, NoOutcome, {}, _tools)
       \/ \E name \in PromptNames, arguments \in PromptArguments :
            last = Call("pending_prompt", Name(name), arguments, NoneTool, NoOutcome, {}, _tools)

ReadResource ==
    /\ last.op = "pending_resource"
    /\ last' = Call("read_resource", last.name, last.arguments, NoneTool,
                    handle_read_resource(last.name.s, settings), {}, _tools)
    /\ UNCHANGED <<_tools, regLog, settings>>

GetPrompt ==
    /\ last.op = "pending_prompt"
    /\ last' = Call("get_prompt", last.name, last.arguments, NoneTool,
                    handle_get_prompt(last.name.s, last.arguments), {}, _tools)
    /\ UNCHANGED <<_tools, regLog, settings>>

NextCatalog == ReadResource \/ GetPrompt

SpecCatalog == InitCatalog /\ [][NextCatalog]_vars

(***************************************************************************)
(* Properties.                                                             *)
(***************************************************************************)
\* The tool passed to the most recent register call with this name, or None.
LastRegistered(name) ==
    LET hits == {i \in 1..Len(regLog) : ~name.none /\ regLog[i].name = name.s}
    IN  IF hits = {} THEN NoneTool
        ELSE regLog[CHOOSE i \in hits : \A j \in hits : j <= i]

\* The name of the last call is not registered.
LastNameUnregistered == get(_tools, last.name) = NoneTool

\* C1: after any sequence of register calls the registry holds at most one
\* tool per name, get(name) gives the tool of the most recent register call
\* with that name (None when there was none), and a register call under a name
\* already present returns normally and leaves the number of names as it was.
C1_LastRegistrationWins ==
    /\ \A i, j \in 1..Len(_tools) : _tools[i].key = _tools[j].key => i = j
    /\ \A name \in LookupNames : get(_tools, name) = LastRegistered(name)
    /\ last.op = "get" => last.tool = LastRegistered(last.name)
    /\ last.op = "register" =>
        /\ last.outcome.kind = "return"
        /\ get(_tools, last.name) = last.tool
        /\ last.name.s \in DictKeys(last.before) =>
            /\ Cardinality(DictKeys(_tools)) = Cardinality(DictKeys(last.before))
            /\ Len(_tools) = Len(last.before)

\* C1 witness: a second tool was just registered under the name of the first,
\* and the name now gives the second.
C1_Witness ==
    /\ last.op = "register"
    /\ Len(regLog) = 2
    /\ regLog[1].name = regLog[2].name
    /\ regLog[1] # regLog[2]
    /\ last.name.s \in DictKeys(last.before)
    /\ get(_tools, last.name) = regLog[2]
    /\ Len(_tools) = 1

\* C2: execute_tool with a name that is not registered raises ValueError with a
\* message starting "Unknown tool", whatever the arguments (None included),
\* and calls no tool's execute.
C2_UnknownToolRaisesValueError ==
    (last.op = "execute_tool" /\ LastNameUnregistered) =>
        /\ last.outcome.kind = "raise"
        /\ last.outcome.exc = "ValueError"
        /\ StartsWith(last.outcome.msg, "Unknown tool")
        /\ last.executed = {}

\* C2 witness: execute_tool was called with arguments None and an unregistered
\* name on a registry that holds a tool, and raised the ValueError.
C2_Witness ==
    /\ last.op = "execute_tool"
    /\ last.arguments.none
    /\ last.name = Name("unknown_tool")
    /\ Len(_tools) > 0
    /\ last.outcome = Raise("ValueError", "Unknown tool: unknown_tool")

\* C3: handle_call_tool with a name that is absent (None) or not registered
\* returns one text content block whose text begins "Error: " and raises
\* nothing.
C3_UnknownToolIsErrorBlock ==
    (last.op = "handle_call_tool" /\ (last.name.none \/ LastNameUnregistered)) =>
        /\ last.outcome.kind = "return"
        /\ Len(last.outcome.content) = 1
        /\ last.outcome.content[1].type = "text"
        /\ StartsWith(last.outcome.content[1].text, "Error: ")
        /\ last.executed = {}

\* C3 witness: handle_call_tool was called with an unregistered name on a
\* registry that holds a tool and returned the error block.
C3_Witness ==
    /\ last.op = "handle_call_tool"
    /\ last.name = Name("unknown_tool")
    /\ Len(_tools) > 0
    /\ last.outcome = Return(<<TextContent("Error: Unknown tool: unknown_tool")>>)


(***************************************************************************)
(* Reading a result text back as a number.                                 *)
(***************************************************************************)
IsDigit(c) == \E k \in 0..9 : SubSeq("0123456789", k + 1, k + 1) = c
DigitOf(c) == CHOOSE k \in 0..9 : SubSeq("0123456789", k + 1, k + 1) = c

\* The digits of s from position i on, read as the fraction n/d; dot tells
\* whether a decimal point was passed.
RECURSIVE ReadDigits(_, _, _, _, _)
ReadDigits(s, i, n, d, dot) ==
    IF i > Len(s)
    THEN [ok |-> TRUE, n |-> n, d |-> d, dot |-> dot]
    ELSE LET c == SubSeq(s, i, i)
         IN  IF c = "." /\ ~dot
             THEN ReadDigits(s, i + 1, n, d, TRUE)
             ELSE IF IsDigit(c)
             THEN ReadDigits(s, i + 1, n * 10 + DigitOf(c), IF dot THEN d * 10 ELSE d, dot)
             ELSE [ok |-> FALSE, n |-> 0, d |-> 1, dot |-> dot]

\* The decimal numeral s as the fraction n/d with its sign apart.
ReadDecimal(s) ==
    LET neg == Len(s) > 0 /\ SubSeq(s, 1, 1) = "-"
        r == ReadDigits(s, IF neg THEN 2 ELSE 1, 0, 1, FALSE)
    IN  [ok |-> r.ok /\ Len(s) > (IF neg THEN 1 ELSE 0),
         n |-> IF neg THEN -r.n ELSE r.n, d |-> r.d, dot |-> r.dot]

\* text is the string form of the number num/den: an integer numeral for an
\* int, a numeral with a decimal point for a float.
IsTextOf(text, num, den, isInt) ==
    LET r == ReadDecimal(text)
    IN  /\ r.ok
        /\ r.dot = ~isInt
        /\ r.n * den = num * r.d

\* The arguments of the last call give a and b, both of the listed types.
LastHasAB(types) ==
    /\ ~last.arguments.none
    /\ {"a", "b"} \subseteq DOMAIN last.arguments.items
    /\ last.arguments.items["a"].t \in types
    /\ last.arguments.items["b"].t \in types

LastA == last.arguments.items["a"]
LastB == last.arguments.items["b"]

\* The last call returned exactly one text block.
LastReturnedOneText ==
    /\ last.outcome.kind = "return"
    /\ Len(last.outcome.content) = 1
    /\ last.outcome.content[1].type = "text"

LastText == last.outcome.content[1].text

\* The types of a JSON number in Python.
NumberTypes == {"int", "float", "hugeint"}

\* C11: for all numeric a and b, calculate_sum, calculate_subtract and
\* calculate_multiply return exactly one text block whose text is the string
\* form of a+b, a-b and a*b.
C11_ArithmeticText ==
    (/\ last.op = "execute_tool"
     /\ last.name.s \in {"calculate_sum", "calculate_subtract", "calculate_multiply"}
     /\ LastHasAB(NumberTypes)) =>
        /\ LastReturnedOneText
        /\ LET isInt == LastA.t = "int" /\ LastB.t = "int"
               an == Num(LastA)
               ad == Den(LastA)
               bn == Num(LastB)
               bd == Den(LastB)
           IN  CASE last.name.s = "calculate_sum" ->
                        IsTextOf(LastText, an * bd + bn * ad, ad * bd, isInt)
                 [] last.name.s = "calculate_subtract" ->
                        IsTextOf(LastText, an * bd - bn * ad, ad * bd, isInt)
                 [] OTHER ->
                        IsTextOf(LastText, an * bn, ad * bd, isInt)


\* sub occurs in s.
Contains(s, sub) ==
    \E i \in 1..(Len(s) - Len(sub) + 1) : SubSeq(s, i, i + Len(sub) - 1) = sub

\* The last call was made through execute_tool or handle_call_tool.
LastIsCall == last.op \in {"execute_tool", "handle_call_tool"}

\* C12: for every numeric a, calculate_divide with b = 0 (the int 0 or the
\* float 0.0) returns exactly one text block that contains "Error" and raises
\* nothing, through execute_tool and through handle_call_tool.
C12_DivideByZeroIsText ==
    (/\ LastIsCall
     /\ last.name.s = "calculate_divide"
     /\ LastHasAB(NumberTypes \cup {"bool"})
     /\ LastB.t \in {"int", "float"}
     /\ LastB.v = 0) =>
        /\ LastReturnedOneText
        /\ Contains(LastText, "Error")
        /\ LastText = "Error: Division by zero"

\* C12 witness: calculate_divide was executed with a = 10 and b = 0 and
\* returned the text block.
C12_Witness ==
    /\ last.op = "execute_tool"
    /\ last.name.s = "calculate_divide"
    /\ LastHasAB({"int"})
    /\ LastA = PyInt(10)
    /\ LastB = PyInt(0)
    /\ last.outcome = Return(<<TextContent("Error: Division by zero")>>)


\* C13: for every numeric a and every non-zero numeric b, calculate_divide
\* returns exactly one text block holding the quotient a/b in float form (a
\* decimal point also when the division is exact: "5.0"), never the
\* division-by-zero text.
C13_DivideText ==
    (/\ last.op = "execute_tool"
     /\ last.name.s = "calculate_divide"
     /\ LastHasAB(NumberTypes)
     /\ NotZero(LastB)) =>
        /\ LastReturnedOneText
        /\ LastText # "Error: Division by zero"
        /\ IsTextOf(LastText, Num(LastA) * Den(LastB), Den(LastA) * Num(LastB), FALSE)


\* The value the last call gives for a key, None when the key (or the whole
\* mapping) is absent.
LastArg(key) ==
    IF last.arguments.none
    THEN PyNone
    ELSE ArgGet(last.arguments.items, key, PyNone)

CalculatorNames ==
    {"calculate_sum", "calculate_subtract", "calculate_multiply", "calculate_divide"}

\* C14: for each arithmetic tool, when a or b is absent or is not a number (a
\* string, None, a bool, a list, a mapping), execute_tool raises
\* ValueError("Arguments must be numbers"), and handle_call_tool returns it as
\* one text error block.
C14_NonNumberIsInvalidArgument ==
    (/\ LastIsCall
     /\ last.name.s \in CalculatorNames
     /\ (LastArg("a").t \notin NumberTypes \/ LastArg("b").t \notin NumberTypes)) =>
        IF last.op = "execute_tool"
        THEN last.outcome = Raise("ValueError", "Arguments must be numbers")
        ELSE last.outcome = Return(<<TextContent("Error: Arguments must be numbers")>>)


\* The tool the last call's name gives, and the mapping execute_tool hands it.
LastTool == get(_tools, last.name)
LastItems == IF last.arguments.none THEN << >> ELSE last.arguments.items

\* A field the tool's schema lists as required is absent from the mapping.
LacksRequired(tool, items) ==
    \E i \in 1..Len(tool.required) : tool.required[i] \notin DOMAIN items

\* C15: for every registered tool and every mapping that lacks a field the
\* tool's schema requires, execute_tool fails with ValueError and the tool's
\* handler is not invoked.
C15_RequiredFieldsValidated ==
    (/\ last.op = "execute_tool"
     /\ LastTool # NoneTool
     /\ LacksRequired(LastTool, LastItems)) =>
        /\ last.outcome.kind = "raise"
        /\ last.outcome.exc = "ValueError"
        /\ ~HandlerInvoked(LastTool, LastItems)


\* The names of a log of register calls, each once, in the order of their
\* first registration.
RECURSIVE FirstNames(_)
FirstNames(log) ==
    IF log = << >>
    THEN << >>
    ELSE LET init == FirstNames(SubSeq(log, 1, Len(log) - 1))
             name == log[Len(log)].name
         IN  IF \E i \in 1..Len(init) : init[i] = name THEN init ELSE Append(init, name)

\* The tools the registry holds (each the latest under its name), in the order
\* of their own register calls.
HeldInCallOrder == SelectSeq(regLog, LAMBDA t : LastRegistered(Name(t.name)) = t)

\* C16 as stated: list_tools gives one descriptor for every tool the registry
\* holds and no others, in the order in which those tools were registered.
C16_ListInRegistrationOrder ==
    last.op = "list_tools" =>
        last.outcome.content =
            [i \in 1..Len(HeldInCallOrder) |-> to_mcp_tool(HeldInCallOrder[i])]

\* C16 amended: list_tools gives one descriptor for every tool the registry
\* holds and no others, in the order in which their names were first
\* registered: a tool registered under a name already present is listed at the
\* place of the tool it replaces.
C16_ListInFirstRegistrationOrder ==
    last.op = "list_tools" =>
        /\ last.outcome.kind = "return"
        /\ last.outcome.content =
            [i \in 1..Len(FirstNames(regLog)) |->
                to_mcp_tool(LastRegistered(Name(FirstNames(regLog)[i])))]

\* C16 witness: three register calls, the third under the name of the first,
\* then a listing: two descriptors, the first one that of the third tool.
C16_Witness ==
    /\ last.op = "list_tools"
    /\ Len(regLog) = 3
    /\ regLog[1].name = regLog[3].name
    /\ regLog[1].name # regLog[2].name
    /\ to_mcp_tool(regLog[1]) # to_mcp_tool(regLog[3])
    /\ last.outcome.content = <<to_mcp_tool(regLog[3]), to_mcp_tool(regLog[2])>>


\* C17: read_resource of the URI "config://app" returns text that contains the
\* configured app name, version and environment; read_resource of every other
\* URI raises ValueError "Resource not found..." and returns no content.
C17_ReadResourceExactMatch ==
    last.op = "read_resource" =>
        IF last.name.s = "config://app"
        THEN /\ last.outcome.kind = "return"
             /\ Contains(last.outcome.content, settings.app_name)
             /\ Contains(last.outcome.content, settings.version)
             /\ Contains(last.outcome.content, settings.environment)
        ELSE /\ last.outcome.kind = "raise"
             /\ last.outcome.exc = "ValueError"
             /\ StartsWith(last.outcome.msg, "Resource not found")
             /\ last.outcome.content = << >>

\* C17 witness: "config://app" was read under settings that are not the
\* defaults, and text was returned.
C17_Witness ==
    /\ last.op = "read_resource"
    /\ last.name.s = "config://app"
    /\ settings.app_name = "My App"
    /\ settings.version = "2.3.4"
    /\ settings.environment = "production"
    /\ last.outcome.kind = "return"

\* The prompts of list_prompts named as the last call names.
ListedPrompts ==
    {handle_list_prompts[i] : i \in {j \in 1..Len(handle_list_prompts) :
                                        handle_list_prompts[j].name = last.name.s}}

\* The argument names the last call gave.
LastArgNames == DOMAIN OrEmpty(last.arguments)

\* C18: get_prompt("greeting", arguments) returns, whatever the arguments: one
\* user message, whose text starts "Hello, User!" when arguments is None or
\* lacks "name", and "Hello, N!" when name = N.
C18_GreetingNeverFails ==
    (last.op = "get_prompt" /\ last.name.s = "greeting") =>
        /\ last.outcome.kind = "return"
        /\ Len(last.outcome.content.messages) = 1
        /\ last.outcome.content.messages[1].role = "user"
        /\ StartsWith(last.outcome.content.messages[1].content.text,
                      "Hello, "
                      \o (IF "name" \in LastArgNames
                          THEN StrVals[last.arguments.items["name"].v]
                          ELSE "User")
                      \o "!")

\* C18 witness: get_prompt("greeting", {"name": "World"}) gave
\* "Hello, World! How can I help you today?".
C18_Witness ==
    /\ last.op = "get_prompt"
    /\ last.name.s = "greeting"
    /\ last.arguments = Args([k \in {"name"} |-> PyStrVal(3)])
    /\ last.outcome.kind = "return"
    /\ last.outcome.content.messages[1].content.text = "Hello, World! How can I help you today?"

\* C19: get_prompt of a listed prompt, called without an argument that the
\* prompt's definition in list_prompts marks as required, raises ValueError.
C19_RequiredPromptArgument ==
    (/\ last.op = "get_prompt"
     /\ \E prompt \in ListedPrompts : \E i \in 1..Len(prompt.arguments) :
            /\ prompt.arguments[i].required
            /\ prompt.arguments[i].name \notin LastArgNames) =>
        /\ last.outcome.kind = "raise"
        /\ last.outcome.exc = "ValueError"

\* C20: get_prompt of a name that list_prompts does not return raises
\* ValueError "Unknown prompt..." and returns nothing, whatever the arguments.
C20_UnknownPromptRaises ==
    (last.op = "get_prompt" /\ ListedPrompts = {}) =>
        /\ last.outcome.kind = "raise"
        /\ last.outcome.exc = "ValueError"
        /\ StartsWith(last.outcome.msg, "Unknown prompt")
        /\ last.outcome.content = << >>

\* C20 witness: get_prompt("Greeting", {"name": "World", ...}) raised.
C20_Witness ==
    /\ last.op = "get_prompt"
    /\ last.name.s = "Greeting"
    /\ "name" \in LastArgNames
    /\ last.outcome.kind = "raise"
    /\ last.outcome.msg = "Unknown prompt: Greeting"


\* The last call failed inside tool execution: execute_tool on the same
\* registry, name and arguments raises.
LastExecutionFails ==
    execute_tool(last.before, last.name, last.arguments).outcome.kind = "raise"

\* C21: on the registry register_tools builds at startup, handle_call_tool
\* returns a non-empty list of content blocks and raises nothing, for every
\* name and every arguments value; when tool execution fails the list is one
\* text block that begins "Error: ".
C21_HandleCallToolNeverRaises ==
    (last.op = "handle_call_tool" /\ regLog = StartupTools) =>
        /\ last.outcome.kind = "return"
        /\ Len(last.outcome.content) >= 1
        /\ LastExecutionFails =>
            /\ Len(last.outcome.content) = 1
            /\ last.outcome.content[1].type = "text"
            /\ StartsWith(last.outcome.content[1].text, "Error: ")


\* C22: a call of get, list_tools, execute_tool or handle_call_tool, returning
\* or raising, with any name and arguments, leaves the registry's mapping as
\* it was, and with it what list_tools lists and what get finds; execute_tool
\* with arguments None gives what it gives with the empty mapping.
C22_OnlyRegisterChangesRegistry ==
    [][last'.op # "register" =>
        /\ _tools' = _tools
        /\ list_tools(_tools') = list_tools(_tools)
        /\ \A name \in LookupNames : get(_tools', name) = get(_tools, name)
        /\ (last'.op = "execute_tool" /\ last'.arguments.none) =>
            last'.outcome = execute_tool(_tools, last'.name, Args(<< >>)).outcome]_vars

\* C22 witness: execute_tool with arguments None raised on a registered
\* calculator, and the registry is the one the register calls built.
C22_Witness ==
    /\ last.op = "execute_tool"
    /\ last.arguments.none
    /\ ~LastNameUnregistered
    /\ last.outcome.kind = "raise"
    /\ Len(_tools) >= 1
    /\ last.before = _tools
    /\ _tools = RegisterAll(EmptyRegistry, regLog)

====
